---- MODULE Spec2Model ----
(***************************************************************************)
(* A model of the Prolog core of ericchiang/pl: the terms and unification  *)
(* of prolog/syntax/term.go and the resolution driver (Prog, Results,      *)
(* choicepoint) of the syntax package.                                     *)
(*                                                                         *)
(* Go pointers are modelled as indices into heaps: val is the heap of      *)
(* Variable.value fields, gnodes the heap of Goal nodes, cps the heap of   *)
(* choicepoints.  Index 0 is the nil pointer.                              *)
(***************************************************************************)
EXTENDS Integers, Sequences, FiniteSets, TLC

VARIABLES
    val,     \* val[i]: the value field of Variable i (Nil when unset)
    gnodes,  \* gnodes[n]: the Goal node n, [head, tail]
    prog,    \* Prog.clauses: signature -> ordered list of clauses
    cps,     \* the choicepoints allocated so far
    r,       \* the Results: [p, cp, err]
    pc,      \* "unify": terms only; "query": a Results is being iterated
    hist,    \* observations of the calls made so far (not program state)
    u        \* the operands and results of the last Unify call made directly

vars == <<val, gnodes, prog, cps, r, pc, hist, u>>

----------------------------------------------------------------------------
(* Bounds *)

\* depth of nested Unify calls and of Value steps explored before the call
\* is reported as not returning
MaxDepth == 8
\* longest list of facts added to a generated program
MaxFacts == 3
\* direct Unify calls made in a row on one heap
MaxUnify == 2
\* calls made on one Results
MaxCalls == 10

----------------------------------------------------------------------------
(* Terms (term.go) *)

Nil == [k |-> "nil"]

Atom(s) == [k |-> "atom", name |-> s]

Integer(n) == [k |-> "int", i |-> n]

\* a Float64 is modelled by twice its value: the model's floats are the
\* multiples of 1/2
Float64(twice) == [k |-> "float", x2 |-> twice]

Variable(id) == [k |-> "var", id |-> id]

NewCompound(functor, args) == [k |-> "cmp", functor |-> functor, args |-> args]

AnonVariable == [k |-> "anon"]

Cut == [k |-> "cut"]

\* Float64(i) for an Integer i
IntToFloat(t) == Float64(2 * t.i)

UResult(ok, h) == [ok |-> ok, val |-> h, div |-> FALSE]

UDiverge(h) == [ok |-> FALSE, val |-> h, div |-> TRUE]

RECURSIVE Unify(_, _, _, _)
RECURSIVE UnifyArgs(_, _, _, _, _)
RECURSIVE UnifyArgsFrom(_, _, _, _, _)

AtomUnify(a, t, h, d) ==
    CASE t.k = "var"  -> Unify(t, a, h, d - 1)
      [] t.k = "atom" -> UResult(t = a, h)
      [] OTHER        -> UResult(FALSE, h)

IntegerUnify(i, t, h, d) ==
    CASE t.k = "var"   -> Unify(t, i, h, d - 1)
      [] t.k = "int"   -> UResult(t = i, h)
      [] t.k = "float" -> UResult(IntToFloat(i) = t, h)
      [] OTHER         -> UResult(FALSE, h)

Float64Unify(f, t, h, d) ==
    CASE t.k = "int"   -> UResult(f = IntToFloat(t), h)
      [] t.k = "float" -> UResult(t = f, h)
      [] t.k = "var"   -> Unify(t, f, h, d - 1)
      [] OTHER         -> UResult(FALSE, h)

VariableUnify(v, t, h, d) ==
    IF t.k # "var"
    THEN IF h[v.id] = Nil
         THEN UResult(TRUE, [h EXCEPT ![v.id] = t])
         ELSE Unify(h[v.id], t, h, d - 1)
    ELSE IF v.id = t.id THEN UResult(TRUE, h)
    ELSE IF h[v.id] = Nil THEN UResult(TRUE, [h EXCEPT ![v.id] = t])
    ELSE IF h[t.id] = Nil THEN UResult(TRUE, [h EXCEPT ![t.id] = v])
    ELSE Unify(h[v.id], h[t.id], h, d - 1)

\* the result res with the bindings put back to h when it failed
rolledBack(res, h) == IF res.ok \/ res.div THEN res ELSE UResult(FALSE, h)

\* Compound.Unify undoing the bindings of the earlier pairs on failure
CompoundUnify_rollback(c, t, h, d) ==
    CASE t.k = "var" -> Unify(t, c, h, d - 1)
      [] t.k = "cmp" ->
            IF c.functor # t.functor \/ Len(c.args) # Len(t.args)
            THEN UResult(FALSE, h)
            ELSE rolledBack(UnifyArgs(c.args, t.args, 1, h, d), h)
      [] OTHER -> UResult(FALSE, h)

CompoundUnify(c, t, h, d) ==
    CASE t.k = "var" -> Unify(t, c, h, d - 1)
      [] t.k = "cmp" ->
            IF c.functor # t.functor \/ Len(c.args) # Len(t.args)
            THEN UResult(FALSE, h)
            ELSE UnifyArgs(c.args, t.args, 1, h, d)
      [] OTHER -> UResult(FALSE, h)

\* a.Unify(b) on the heap h; d is the call depth still allowed
Unify(a, b, h, d) ==
    IF d = 0 THEN UDiverge(h)
    ELSE CASE a.k = "anon"  -> UResult(TRUE, h)
           [] a.k = "cut"   -> UResult(TRUE, h)
           [] a.k = "atom"  -> AtomUnify(a, b, h, d)
           [] a.k = "int"   -> IntegerUnify(a, b, h, d)
           [] a.k = "float" -> Float64Unify(a, b, h, d)
           [] a.k = "var"   -> VariableUnify(a, b, h, d)
           [] a.k = "cmp"   -> CompoundUnify(a, b, h, d)

\* the argument loop of Compound.Unify and of the Call methods:
\* xs[i].Unify(ys[i]) for i, i+1, ... until one fails
UnifyArgs(xs, ys, i, h, d) ==
    IF i > Len(xs) THEN UResult(TRUE, h)
    ELSE UnifyArgsFrom(xs, ys, i, Unify(xs[i], ys[i], h, d - 1), d)

\* the loop after xs[i].Unify(ys[i]) returned res
UnifyArgsFrom(xs, ys, i, res, d) ==
    IF ~res.ok THEN res ELSE UnifyArgs(xs, ys, i + 1, res.val, d)

\* the marker for a Value call that does not return
Diverges == [k |-> "diverges"]

RECURSIVE ValueLoop(_, _, _)
ValueLoop(t, h, d) ==
    IF t.k # "var" THEN t
    ELSE IF d = 0 THEN Diverges
    ELSE ValueLoop(h[t.id], h, d - 1)

\* Variable.Value: Nil when unbound
Value(v, h) == ValueLoop(h[v.id], h, MaxDepth)

RECURSIVE Callable(_, _, _)
\* t.Callable(): the compound, or Nil
Callable(t, h, d) ==
    CASE t.k = "cmp" -> t
      [] t.k = "var" -> IF h[t.id] = Nil THEN Nil
                        ELSE IF d = 0 THEN Diverges
                        ELSE Callable(h[t.id], h, d - 1)
      [] OTHER -> Nil

----------------------------------------------------------------------------
(* Goals, facts and rules (term.go) *)

RECURSIVE NewGoalTail(_, _, _)
NewGoalTail(terms, i, g) ==
    IF i > Len(terms) THEN g
    ELSE LET g1 == Append(g, [head |-> terms[i], tail |-> 0])
         IN  NewGoalTail(terms, i + 1, [g1 EXCEPT ![Len(g)].tail = Len(g1)])

\* NewGoal(head, tail...): allocates the nodes; the first one is the goal
NewGoal(terms, g) ==
    [goal |-> Len(g) + 1,
     gnodes |-> NewGoalTail(terms, 2, Append(g, [head |-> terms[1], tail |-> 0]))]

\* body is a Goal pointer (0 for a rule without body)
NewRule(functor, args, body) ==
    [k |-> "rule", functor |-> functor, args |-> args, body |-> body]

\* Compound.Signature and Rule.Signature
Signature(c) == [functor |-> c.functor, nArgs |-> Len(c.args)]

CallResult(body, matches, ures, g) ==
    [body |-> body, matches |-> matches, val |-> ures.val, gnodes |-> g,
     div |-> ures.div]

\* the return of Compound.Call after the argument loop returned res
FactResult(res, g) == CallResult(0, res.ok, res, g)

\* Compound.Call: the fact c called with args
CompoundCall(c, args, h, g) ==
    IF Len(c.args) # Len(args) THEN CallResult(0, FALSE, UResult(FALSE, h), g)
    ELSE FactResult(UnifyArgs(args, c.args, 1, h, MaxDepth), g)

RECURSIVE cpTerm(_, _, _)
RECURSIVE cpTerms(_, _, _, _)
RECURSIVE cpTermsFrom(_, _, _)

\* the Compound case of cpTerm, a being the copied arguments
cpCompound(functor, a) ==
    [t |-> NewCompound(functor, a.ts), vars |-> a.vars, val |-> a.val]

\* cpTerm of Rule.cp: vm is the map vars, from a rule Variable to its copy
cpTerm(t, vm, h) ==
    CASE t.k = "var" ->
            IF t.id \in DOMAIN vm
            THEN [t |-> Variable(vm[t.id]), vars |-> vm, val |-> h]
            ELSE [t |-> Variable(Len(h) + 1),
                  vars |-> vm @@ (t.id :> (Len(h) + 1)),
                  val |-> Append(h, Nil)]
      [] t.k = "cmp" -> cpCompound(t.functor, cpTerms(t.args, 1, vm, h))
      [] OTHER -> [t |-> t, vars |-> vm, val |-> h]

\* newTerms with the copy x.t put in front
cpTermsCons(x, rest) ==
    [ts |-> <<x.t>> \o rest.ts, vars |-> rest.vars, val |-> rest.val]

\* cpTerms of Rule.cp, from the i-th term on
cpTerms(terms, i, vm, h) ==
    IF i > Len(terms) THEN [ts |-> <<>>, vars |-> vm, val |-> h]
    ELSE cpTermsFrom(terms, i, cpTerm(terms[i], vm, h))

cpTermsFrom(terms, i, x) == cpTermsCons(x, cpTerms(terms, i + 1, x.vars, x.val))

\* &Goal{x.t, nil}
newNode(g, x) == Append(g, [head |-> x.t, tail |-> 0])

\* last.tail = the node just allocated
linkLast(g1, last) == [g1 EXCEPT ![last].tail = Len(g1)]

RECURSIVE cpBodyLoop(_, _, _, _, _)
RECURSIVE cpBodyStep(_, _, _, _)
RECURSIVE cpBodyNext(_, _, _)
\* the loop of Rule.cp over the rest of the body:
\*   last.tail = &Goal{cpTerm(next.head), nil}; last, next = next, next.tail
cpBodyLoop(last, next, vm, h, g) ==
    IF next = 0 THEN [val |-> h, gnodes |-> g]
    ELSE cpBodyStep(last, next, cpTerm(g[next].head, vm, h), g)

cpBodyStep(last, next, x, g) ==
    cpBodyNext(next, x, linkLast(newNode(g, x), last))

\* last, next = next, next.tail
cpBodyNext(next, x, g2) == cpBodyLoop(next, g2[next].tail, x.vars, x.val, g2)

\* the copy returned by Rule.cp
cpReturn(a, body, loop) ==
    [args |-> a.ts, body |-> body, val |-> loop.val, gnodes |-> loop.gnodes]

\* Rule.cp from cp.body = &Goal{cpTerm(r.body.head), nil} on
cpBody(rule, a, hd, g) ==
    cpReturn(a, Len(g) + 1,
             cpBodyLoop(Len(g) + 1, g[rule.body].tail, hd.vars, hd.val, newNode(g, hd)))

\* Rule.cp once the arguments are copied
cpArgsDone(rule, a, g) ==
    IF rule.body = 0
    THEN [args |-> a.ts, body |-> 0, val |-> a.val, gnodes |-> g]
    ELSE cpBody(rule, a, cpTerm(g[rule.body].head, a.vars, a.val), g)

\* Rule.cp: the copy's args and body, and the heaps after the copy
RuleCp(rule, h, g) == cpArgsDone(rule, cpTerms(rule.args, 1, <<>>, h), g)

\* the return of Rule.Call after the argument loop returned res
RuleResult(ruleCP, res) ==
    IF res.ok THEN CallResult(ruleCP.body, TRUE, res, ruleCP.gnodes)
    ELSE CallResult(0, FALSE, res, ruleCP.gnodes)

\* Rule.Call once the copy is made
RuleCallCopy(args, ruleCP) ==
    RuleResult(ruleCP, UnifyArgs(args, ruleCP.args, 1, ruleCP.val, MaxDepth))

\* Rule.Call
RuleCall(rule, args, h, g) ==
    IF Len(args) # Len(rule.args) THEN CallResult(0, FALSE, UResult(FALSE, h), g)
    ELSE RuleCallCopy(args, RuleCp(rule, h, g))

\* Clause.Call
Call(clause, args, h, g) ==
    CASE clause.k = "cmp"  -> CompoundCall(clause, args, h, g)
      [] clause.k = "rule" -> RuleCall(clause, args, h, g)

----------------------------------------------------------------------------
(* The type-test built-ins (builtin/builtin.go, builtin/type.go) *)

\* the run-time panic of an index out of range
Panics == [k |-> "panic"]

\* the Go expression args[i]: slices are indexed from 0
GoIndex(args, i) == IF i < Len(args) THEN args[i + 1] ELSE Panics

\* what a built-in's call returns: (nil, matches), or the panic
BuiltinResult(matches) == [body |-> 0, matches |-> matches, panic |-> FALSE]

BuiltinPanic == [body |-> 0, matches |-> FALSE, panic |-> TRUE]

\* _, matches = t.(T) for the types of kinds, t being the element indexed
typeAssert(t, kinds) ==
    IF t = Panics THEN BuiltinPanic ELSE BuiltinResult(t.k \in kinds)

\* matches = !matches after the type assertion
typeAssertNot(t, kinds) ==
    IF t = Panics THEN BuiltinPanic ELSE BuiltinResult(t.k \notin kinds)

Var1(args) ==
    IF Len(args) = 1 THEN typeAssert(GoIndex(args, 1), {"var"})
    ELSE BuiltinResult(FALSE)

Nonvar1(args) ==
    IF Len(args) = 1 THEN typeAssertNot(GoIndex(args, 1), {"var"})
    ELSE BuiltinResult(FALSE)

Integer1(args) ==
    IF Len(args) = 1 THEN typeAssert(GoIndex(args, 1), {"int"})
    ELSE BuiltinResult(FALSE)

Float1(args) ==
    IF Len(args) = 1 THEN typeAssert(GoIndex(args, 1), {"float"})
    ELSE BuiltinResult(FALSE)

Builtins == {"var", "nonvar", "integer", "float"}

\* builtin.Signature
BuiltinSignature(name) == [functor |-> name, nArgs |-> 1]

\* builtin.Call: b.call(args)
BuiltinCall(name, args) ==
    CASE name = "var"     -> Var1(args)
      [] name = "nonvar"  -> Nonvar1(args)
      [] name = "integer" -> Integer1(args)
      [] name = "float"   -> Float1(args)

----------------------------------------------------------------------------
(* The program (Prog) *)

EmptyProg == <<>>

\* Prog.Add
Add(p, clause) ==
    LET s == Signature(clause)
    IN  IF s \in DOMAIN p THEN [p EXCEPT ![s] = Append(@, clause)]
        ELSE p @@ (s :> <<clause>>)

RECURSIVE NewProgFrom(_, _, _)
NewProgFrom(p, clauses, i) ==
    IF i > Len(clauses) THEN p ELSE NewProgFrom(Add(p, clauses[i]), clauses, i + 1)

\* NewProg(clauses...)
NewProg(clauses) == NewProgFrom(EmptyProg, clauses, 1)

\* Prog.match: the clauses with the signature of c, in the order added
match(p, c) ==
    LET s == Signature(c)
    IN  IF s \in DOMAIN p THEN p[s] ELSE <<>>

----------------------------------------------------------------------------
(* Choicepoints and Results *)

NoErr == [kind |-> "nil"]

\* &TypeErr{exp, term}
TypeErr(exp, term) == [kind |-> "TypeErr", Exp |-> exp, Term |-> term]

\* errors.New("results closed")
ErrClosed == [kind |-> "error", msg |-> "results closed"]

\* visitVarsTerm: the Variables the callback is applied to
RECURSIVE visitVarsTerm(_)
visitVarsTerm(t) ==
    CASE t.k = "var" -> {t.id}
      [] t.k = "cmp" -> UNION {visitVarsTerm(t.args[i]) : i \in 1..Len(t.args)}
      [] OTHER -> {}

RECURSIVE visitVars(_, _)
visitVars(c, g) ==
    IF c = 0 THEN {}
    ELSE visitVarsTerm(g[c].head) \cup visitVars(g[c].tail, g)

\* the error naming the result of Callable instead of the head
callableErr_wrongTerm(head, fact) == TypeErr("callable", fact)

\* &TypeErr{"callable", c.head}
callableErr(head, fact) == TypeErr("callable", head)

\* Prog.choicepoint once c.head.Callable() returned fact
choicepointOf(p, c, backtrack, h, g, fact) ==
    IF fact = Diverges THEN [cp |-> Nil, err |-> NoErr, div |-> TRUE]
    ELSE IF fact = Nil
    THEN [cp |-> Nil, err |-> callableErr(g[c].head, fact), div |-> FALSE]
    ELSE [cp |-> [backtrack |-> backtrack,
                  fact      |-> fact,
                  remaining |-> g[c].tail,
                  clauses   |-> match(p, fact),
                  state     |-> [v \in visitVars(c, g) |-> h[v]]],
          err |-> NoErr, div |-> FALSE]

\* Prog.choicepoint(c, backtrack): the choicepoint (Nil on error), the error
\* and whether Callable did not return
choicepoint(p, c, backtrack, h, g) ==
    choicepointOf(p, c, backtrack, h, g, Callable(g[c].head, h, MaxDepth))

\* the reset of one Variable: v.value = cp.state[v]
resetVar(cp, v) == IF v \in DOMAIN cp.state THEN cp.state[v] ELSE Nil

\* resetVars restoring nothing
resetVars_none(cp, h, g) == h

\* choicepoint.resetVars: the heap after the reset
resetVars(cp, h, g) ==
    [v \in DOMAIN h |->
        IF v \in visitVarsTerm(cp.fact) \cup visitVars(cp.remaining, g)
        THEN resetVar(cp, v)
        ELSE h[v]]

RECURSIVE Resolve(_, _, _)
\* the term t with every bound Variable replaced by its value
Resolve(t, h, d) ==
    IF d = 0 THEN Diverges
    ELSE CASE t.k = "var" -> IF h[t.id] = Nil THEN t ELSE Resolve(h[t.id], h, d - 1)
           [] t.k = "cmp" ->
                NewCompound(t.functor,
                            [i \in 1..Len(t.args) |-> Resolve(t.args[i], h, d - 1)])
           [] OTHER -> t

\* the head of a goal handed to Prog.choicepoint, and what it stood for then
Met(head, h) == [head |-> head, was |-> Resolve(head, h, MaxDepth)]

\* the last node of the goal list c
RECURSIVE lastNode(_, _)
lastNode(c, g) == IF g[c].tail = 0 THEN c ELSE lastNode(g[c].tail, g)

\* pop taking the clause from the wrong end of the list
pop_last(clauses) ==
    [clause |-> clauses[Len(clauses)], rest |-> SubSeq(clauses, 1, Len(clauses) - 1)]

\* choicepoint.pop: the clause taken and the clauses left
pop(clauses) == [clause |-> Head(clauses), rest |-> Tail(clauses)]

\* next restoring the Variables before it gives up
nextNoClause_reset(cpi, st) ==
    [st EXCEPT !.val = resetVars(st.cps[cpi], st.val, st.gnodes),
               !.c = 0, !.match = FALSE]

\* choicepoint.next when pop returns nil: return nil, false
nextNoClause(cpi, st) == [st EXCEPT !.c = 0, !.match = FALSE]

RECURSIVE next(_, _)
RECURSIVE nextCalled(_, _, _)

\* the heaps of st after clause.Call returned res
afterCall(cpi, st, res) ==
    [st EXCEPT !.val = res.val, !.gnodes = res.gnodes,
               !.tried = @ + 1, !.div = res.div]

\* choicepoint.next from the Call of the clause popped on
nextPopped(cpi, st, cp, popped) ==
    nextCalled(cpi,
               [st EXCEPT !.cps[cpi].clauses = popped.rest],
               Call(popped.clause, cp.fact.args,
                    resetVars(cp, st.val, st.gnodes), st.gnodes))

\* choicepoint.next on the choicepoint cpi; st holds the heaps.
\* Returns st after the call, with c and match the two results.
next(cpi, st) ==
    IF Len(st.cps[cpi].clauses) = 0
    THEN nextNoClause(cpi, st)
    ELSE nextPopped(cpi, st, st.cps[cpi], pop(st.cps[cpi].clauses))

\* choicepoint.next when the clause matched: the goals left to prove
nextMatched(cpi, st1, res) ==
    IF res.body = 0
    THEN [st1 EXCEPT !.c = st1.cps[cpi].remaining, !.match = TRUE]
    ELSE [st1 EXCEPT
            !.gnodes[lastNode(res.body, res.gnodes)].tail = st1.cps[cpi].remaining,
            !.c = res.body, !.match = TRUE]

\* choicepoint.next after clause.Call returned res
nextCalled(cpi, st, res) ==
    IF res.div THEN [afterCall(cpi, st, res) EXCEPT !.c = 0, !.match = FALSE]
    ELSE IF ~res.matches THEN next(cpi, afterCall(cpi, st, res))
    ELSE nextMatched(cpi, afterCall(cpi, st, res), res)

RECURSIVE evalCuts(_, _)
\* the cut loop of Results.Next: st.c is the goal list returned by next
evalCuts(st, cpi) ==
    IF st.c # 0 /\ st.gnodes[st.c].head = Cut
    THEN evalCuts([st EXCEPT !.cps[cpi].backtrack = 0,
                             !.c = st.gnodes[st.c].tail], cpi)
    ELSE st

\* Results.Next when next found no match: r.cp = r.cp.backtrack
backtrack(st) == [st EXCEPT !.r.cp = st.cps[st.r.cp].backtrack]

RECURSIVE NextLoop(_, _)
RECURSIVE NextMatched(_, _)
RECURSIVE NextChoicepoint(_, _, _)

\* the loop of Results.Next after r.cp.next() returned (n.c, n.match)
NextStep(p, n) ==
    IF n.div THEN [n EXCEPT !.ret = FALSE]
    ELSE IF ~n.match THEN NextLoop(p, backtrack(n))
    ELSE NextMatched(p, evalCuts(n, n.r.cp))

\* the body of Results.Next once r.err was found nil; sets st.ret
NextLoop(p, st) ==
    IF st.r.cp = 0 THEN [st EXCEPT !.ret = FALSE]
    ELSE NextStep(p, next(st.r.cp, st))

\* Results.Next after the cuts: e.c is the goal list still to prove
NextMatched(p, e) ==
    IF e.c = 0 THEN [e EXCEPT !.ret = TRUE]
    ELSE NextChoicepoint(p, [e EXCEPT !.met = Met(e.gnodes[e.c].head, e.val)],
                         choicepoint(p, e.c, e.r.cp, e.val, e.gnodes))

\* r.cp, r.err = r.p.choicepoint(compound, r.cp) and the check of r.err
NextChoicepoint(p, e, ch) ==
    IF ch.div THEN [e EXCEPT !.div = TRUE, !.ret = FALSE]
    ELSE IF ch.err # NoErr
    THEN [e EXCEPT !.r.cp = 0, !.r.err = ch.err, !.ret = FALSE]
    ELSE NextLoop(p, [e EXCEPT !.cps = Append(@, ch.cp), !.r.cp = Len(e.cps) + 1])

\* the local state of a Results.Next call
NextState == [val |-> val, gnodes |-> gnodes, cps |-> cps, r |-> r,
              c |-> 0, match |-> FALSE, ret |-> FALSE, tried |-> 0,
              div |-> FALSE, met |-> Nil]

\* Results.Next: the state at return
ResultsNextCall ==
    IF r.err # NoErr THEN [NextState EXCEPT !.ret = FALSE]
    ELSE NextLoop(prog, NextState)

\* Close replacing an error already recorded
CloseCall_overwrite == [p |-> FALSE, cp |-> 0, err |-> ErrClosed]

\* Close keeping the pointer to the choicepoints
CloseCall_keepCp ==
    [p |-> FALSE, cp |-> r.cp, err |-> IF r.err = NoErr THEN ErrClosed ELSE r.err]

\* Results.Close
CloseCall ==
    [p |-> FALSE, cp |-> 0, err |-> IF r.err = NoErr THEN ErrClosed ELSE r.err]

\* Prog.Query once p.choicepoint(c, nil) returned ch
QueryOf(ch) ==
    IF ch.err # NoErr \/ ch.div
    THEN [r |-> [p |-> FALSE, cp |-> 0, err |-> ch.err], cps |-> cps,
          div |-> ch.div]
    ELSE [r |-> [p |-> TRUE, cp |-> Len(cps) + 1, err |-> NoErr],
          cps |-> Append(cps, ch.cp), div |-> FALSE]

\* Prog.Query(c): the Results and the choicepoints after the call
QueryCall(c) == QueryOf(choicepoint(prog, c, 0, val, gnodes))

----------------------------------------------------------------------------
(* The programs and queries explored *)

\* the caller's Variables X, Y, Z and the Variables of the stored rules
X == Variable(1)
Y == Variable(2)
Z == Variable(3)
Person1 == Variable(4)
Person2 == Variable(5)
Thing == Variable(6)
RuleX == Variable(7)
NVars == 7
QueryVars == {1, 2, 3}

likes(a, b) == NewCompound("likes", <<a, b>>)

bob == Atom("bob")
eric == Atom("eric")
pizza == Atom("pizza")

\* a rule before its body is allocated: body is the list of its goals
RuleOf(functor, args, body) ==
    [k |-> "ruledef", functor |-> functor, args |-> args, body |-> body]

FactPool == {likes(bob, pizza), likes(eric, pizza), likes(bob, bob)}

RECURSIVE SeqsUpTo(_, _)
\* the sequences over S of length at most n
SeqsUpTo(S, n) ==
    IF n = 0 THEN {<<>>}
    ELSE LET shorter == SeqsUpTo(S, n - 1)
         IN  shorter \cup {Append(q, x) : q \in {q \in shorter : Len(q) = n - 1}, x \in S}

FactGoals == {likes(bob, X), likes(X, Y), likes(X, X), likes(X, pizza),
              likes(AnonVariable, X), likes(bob, pizza)}

friends == RuleOf("friends", <<Person1, Person2>>,
                  <<likes(Person1, Thing), likes(Person2, Thing)>>)

FriendsGoals == {NewCompound("friends", <<X, Y>>),
                 NewCompound("friends", <<X, X>>),
                 NewCompound("friends", <<bob, Y>>)}

a1(t) == NewCompound("a", <<t>>)
b1(t) == NewCompound("b", <<t>>)
c1(t) == NewCompound("c", <<t>>)

\* b(X) :- a(X), !.
cutRule == RuleOf("b", <<RuleX>>, <<a1(RuleX), Cut>>)

Scenario(fam, clauses, goal) == [fam |-> fam, clauses |-> clauses, goal |-> goal]

FactScenarios ==
    {Scenario("facts", cl, <<g>>) : cl \in SeqsUpTo(FactPool, MaxFacts), g \in FactGoals}
    \cup
    {Scenario("facts",
              <<likes(eric, Atom("shoes")), likes(bob, pizza),
                likes(eric, Atom("bubblegum")), likes(bob, Atom("beer"))>>,
              <<likes(bob, X)>>),
     Scenario("facts",
              <<NewCompound("p", <<NewCompound("f", <<Integer(1)>>), Integer(1)>>),
                NewCompound("p", <<Integer(2)>>),
                NewCompound("p", <<NewCompound("f", <<Integer(2)>>), Float64(4)>>),
                NewCompound("p", <<NewCompound("f", <<Integer(2)>>), Integer(1)>>)>>,
              <<NewCompound("p", <<NewCompound("f", <<X>>), X>>)>>)}

RuleScenarios ==
    {Scenario("friends", Append(cl, friends), <<g>>) :
        cl \in SeqsUpTo(FactPool, MaxFacts), g \in FriendsGoals}

CutScenarios ==
    {Scenario("cut", <<a1(Integer(1)), a1(Integer(2)), cutRule>>, <<b1(Y)>>),
     Scenario("cut", <<c1(Integer(1)), c1(Integer(2)), a1(Integer(1)), cutRule>>,
              <<c1(Z), b1(Y)>>),
     Scenario("cut", <<a1(Integer(1)), a1(Integer(2)),
                       RuleOf("b", <<RuleX>>, <<Cut, a1(RuleX)>>),
                       RuleOf("b", <<RuleX>>, <<a1(RuleX)>>)>>, <<b1(Y)>>),
     Scenario("cut", <<c1(Integer(1)), c1(Integer(2)), a1(Integer(1)), a1(Integer(2)),
                       cutRule>>, <<c1(Z), b1(Y), c1(X)>>)}

CallableScenarios ==
    {Scenario("callable", <<likes(bob, pizza)>>, <<X>>),
     Scenario("callable", <<likes(bob, pizza)>>, <<Integer(1)>>),
     Scenario("callable", <<likes(bob, pizza)>>, <<Float64(3)>>),
     Scenario("callable", <<likes(bob, pizza), likes(bob, Integer(2))>>,
              <<likes(bob, X), X>>),
     Scenario("callable", <<likes(bob, pizza), likes(eric, pizza)>>,
              <<likes(X, pizza), Integer(1)>>),
     Scenario("callable", <<likes(bob, pizza)>>, <<likes(bob, X), Y>>),
     Scenario("callable", <<likes(bob, pizza)>>, <<likes(bob, X), AnonVariable>>),
     Scenario("callable", <<likes(bob, pizza)>>, <<Cut, likes(bob, X)>>),
     Scenario("callable", <<RuleOf("g", <<RuleX>>, <<RuleX>>)>>,
              <<NewCompound("g", <<Integer(1)>>)>>),
     Scenario("atom", <<NewCompound("a", <<>>)>>, <<Atom("a")>>),
     Scenario("atom", <<likes(bob, pizza), NewCompound("a", <<>>)>>,
              <<likes(bob, X), Atom("a")>>)}

beer == Atom("beer")
wine == Atom("wine")
f1(t) == NewCompound("f1", <<t>>)

\* queries whose last goal is the Variable X, bound by the goals before it:
\* the example of Term.Callable, X bound through a chain of Variables, X
\* bound to a compound that holds a bound Variable, X bound to a number and
\* X unbound
CallVarScenarios ==
    {Scenario("callvar", <<likes(eric, beer), f1(likes(eric, beer))>>, <<f1(X), X>>),
     Scenario("callvar",
              <<likes(eric, beer), likes(eric, wine), f1(likes(eric, wine))>>,
              <<f1(X), X>>),
     Scenario("callvar",
              <<likes(eric, beer), f1(likes(eric, beer)),
                RuleOf("same", <<RuleX, RuleX>>, <<>>)>>,
              <<f1(Y), NewCompound("same", <<X, Y>>), X>>),
     Scenario("callvar",
              <<likes(eric, beer), likes(eric, wine),
                RuleOf("p", <<likes(eric, RuleX), RuleX>>, <<>>)>>,
              <<NewCompound("p", <<X, beer>>), X>>),
     Scenario("callvar", <<likes(eric, beer), f1(Integer(1))>>, <<f1(X), X>>),
     Scenario("callvar", <<likes(eric, beer), f1(likes(eric, beer))>>, <<f1(Y), X>>)}

q1(t) == NewCompound("q", <<t>>)

\* t(f(A)). q(f(1)). q(f(2)). queried with t(X), q(X): when the choicepoint
\* of q(X) is made, X is bound to f(A') and A' is unbound
SnapshotScenarios ==
    {Scenario("snapshot",
              <<RuleOf("t", <<f1(RuleX)>>, <<>>), q1(f1(Integer(1))),
                q1(f1(Integer(2)))>>,
              <<NewCompound("t", <<X>>), q1(X)>>)}

\* p(Y, Y) :- q(Y). q(1). queried with p(X, X), and with p(X, Z)
RepeatScenarios ==
    {Scenario("repeat",
              <<RuleOf("p", <<RuleX, RuleX>>, <<q1(RuleX)>>), q1(Integer(1))>>,
              <<NewCompound("p", <<X, X>>)>>),
     Scenario("repeat",
              <<RuleOf("p", <<RuleX, RuleX>>, <<q1(RuleX)>>), q1(Integer(1))>>,
              <<NewCompound("p", <<X, Z>>)>>)}

Scenarios ==
    FactScenarios \cup RuleScenarios \cup CutScenarios \cup CallableScenarios
        \cup CallVarScenarios \cup SnapshotScenarios \cup RepeatScenarios

RECURSIVE BuildClauses(_, _, _, _)
RECURSIVE BuildRule(_, _, _, _)
\* the clauses of a scenario with the bodies of its rules allocated in g
BuildClauses(defs, i, acc, g) ==
    IF i > Len(defs) THEN [clauses |-> acc, gnodes |-> g]
    ELSE IF defs[i].k = "ruledef"
    THEN IF defs[i].body = <<>>
         THEN BuildClauses(defs, i + 1,
                  Append(acc, NewRule(defs[i].functor, defs[i].args, 0)), g)
         ELSE BuildRule(defs, i, acc, NewGoal(defs[i].body, g))
    ELSE BuildClauses(defs, i + 1, Append(acc, defs[i]), g)

\* NewRule(functor, args, NewGoal(body...))
BuildRule(defs, i, acc, b) ==
    BuildClauses(defs, i + 1,
                 Append(acc, NewRule(defs[i].functor, defs[i].args, b.goal)),
                 b.gnodes)

\* NewProg(clauses...) and the query's goal q
BuildProg(cl, q) ==
    [prog |-> NewProg(cl.clauses), gnodes |-> q.gnodes, goal |-> q.goal]

\* the query's NewGoal
BuildGoal(scn, cl) == BuildProg(cl, NewGoal(scn.goal, cl.gnodes))

\* the caller's code before Query: the clauses, NewProg and the query's NewGoal
Build(scn) == BuildGoal(scn, BuildClauses(scn.clauses, 1, <<>>, <<>>))

----------------------------------------------------------------------------
(* Observations *)

\* what the caller sees in its Variables
Seen(h) == [v \in QueryVars |-> Resolve(Variable(v), h, MaxDepth)]

\* v.Value() for each of the caller's Variables
Values(h) == [v \in QueryVars |-> Value(Variable(v), h)]

NoResults == [p |-> FALSE, cp |-> 0, err |-> NoErr]

\* no Unify call made yet; plain: every operand so far was a Variable or Atom
NoUnify == [n |-> 0, plain |-> TRUE]

----------------------------------------------------------------------------
(* The query specification: a program is built, queried, and the Results   *)
(* is used through Next, Err and Close in any order                        *)

\* the state once the program b.prog and the goal b.goal are built
InitBuilt(scn, b) ==
    /\ val = [i \in 1..NVars |-> Nil]
    /\ gnodes = b.gnodes
    /\ prog = b.prog
    /\ cps = <<>>
    /\ r = NoResults
    /\ pc = "built"
    /\ hist = [scn |-> scn, goal |-> b.goal, rets |-> <<>>, last |-> "NewProg",
               errRet |-> NoErr, closed |-> FALSE, closedAt |-> 0,
               errAtClose |-> NoErr, qmet |-> Nil]
    /\ u = NoUnify

Init == \E scn \in Scenarios : InitBuilt(scn, Build(scn))

\* the return of Query: q holds the Results
QueryReturn(q) ==
    /\ r' = q.r
    /\ cps' = q.cps
    /\ pc' = IF q.div THEN "crashed" ELSE "query"

\* r := p.Query(goal)
Query ==
    /\ pc = "built"
    /\ QueryReturn(QueryCall(hist.goal))
    /\ hist' = [hist EXCEPT !.last = "Query",
                            !.qmet = Met(gnodes[hist.goal].head, val)]
    /\ UNCHANGED <<val, gnodes, prog, u>>

\* the return of Next: n is the state the call ended in
ResultsNextReturn(n) ==
    /\ val' = n.val
    /\ gnodes' = n.gnodes
    /\ cps' = n.cps
    /\ r' = n.r
    /\ pc' = IF n.div THEN "crashed" ELSE "query"
    /\ hist' = [hist EXCEPT
                  !.rets = Append(@, [ret |-> n.ret, seen |-> Seen(n.val),
                                      value |-> Values(n.val),
                                      tried |-> n.tried, err |-> n.r.err,
                                      met |-> n.met]),
                  !.last = "Next"]

\* r.Next()
ResultsNext ==
    /\ pc = "query"
    /\ Len(hist.rets) < MaxCalls
    /\ ResultsNextReturn(ResultsNextCall)
    /\ UNCHANGED <<prog, u>>

\* r.Err()
Err ==
    /\ pc = "query"
    /\ hist' = [hist EXCEPT !.last = "Err", !.errRet = r.err]
    /\ UNCHANGED <<val, gnodes, prog, cps, r, pc, u>>

\* r.Close()
Close ==
    /\ pc = "query"
    /\ r' = CloseCall
    /\ hist' = [hist EXCEPT
                  !.last = "Close", !.closed = TRUE,
                  !.closedAt = IF hist.closed THEN @ ELSE Len(hist.rets),
                  !.errAtClose = IF hist.closed THEN @ ELSE r.err]
    /\ UNCHANGED <<val, gnodes, prog, cps, pc, u>>

Next == Query \/ ResultsNext \/ Err \/ Close

Spec == Init /\ [][Next]_vars

----------------------------------------------------------------------------
(* The unification specification: Unify is called directly on terms built  *)
(* over three Variables, each call starting from the bindings the earlier  *)
(* calls left                                                              *)

NUVars == 3

UTerms ==
    {Atom("a"), Atom("b"), Integer(1), Float64(2), Variable(1), Variable(2),
     Variable(3), AnonVariable, Cut,
     NewCompound("f", <<Variable(1)>>), NewCompound("f", <<Atom("a")>>),
     NewCompound("f", <<AnonVariable>>),
     NewCompound("g", <<Variable(1), Atom("a")>>),
     NewCompound("g", <<Integer(1), Atom("b")>>),
     NewCompound("g", <<Variable(2), Variable(1)>>)}

\* the operands that are Variables or Atoms
PlainTerm(t) == t.k \in {"var", "atom"}

NoHist == [scn |-> Scenario("unify", <<>>, <<>>), goal |-> 0, rets |-> <<>>,
           last |-> "unify", errRet |-> NoErr, closed |-> FALSE, closedAt |-> 0,
           errAtClose |-> NoErr, qmet |-> Nil]

InitU ==
    /\ val = [i \in 1..NUVars |-> Nil]
    /\ gnodes = <<>>
    /\ prog = EmptyProg
    /\ cps = <<>>
    /\ r = NoResults
    /\ pc = "unify"
    /\ hist = NoHist
    /\ u = NoUnify

\* the return of a.Unify(b): ab is its result, ba that of b.Unify(a) made
\* from the same bindings
UnifyReturn(a, b, ab, ba) ==
    /\ val' = ab.val
    /\ u' = [n |-> u.n + 1, plain |-> u.plain /\ PlainTerm(a) /\ PlainTerm(b),
             a |-> a, b |-> b, before |-> val, ab |-> ab, ba |-> ba]
    /\ pc' = IF ab.div THEN "crashed" ELSE "unify"

\* a.Unify(b)
UnifyTerms ==
    /\ pc = "unify"
    /\ u.n < MaxUnify
    /\ \E a \in UTerms, b \in UTerms :
          UnifyReturn(a, b, Unify(a, b, val, MaxDepth), Unify(b, a, val, MaxDepth))
    /\ UNCHANGED <<gnodes, prog, cps, r, hist>>

NextU == UnifyTerms

SpecU == InitU /\ [][NextU]_vars

----------------------------------------------------------------------------
(* The clause specification: one rule or one fact is built and its Call    *)
(* method is called directly, several times, with the caller's terms       *)

\* the caller's Variables are 1 and 2, the rule's Variables RA and RB
NCVars == 4
RA == Variable(3)
RB == Variable(4)
RuleVarIds == {3, 4}

\* Call calls made on the rule
MaxRuleCalls == 3

\* rules with bodies of no, one, two, three and four goals
CRules ==
    {RuleOf("r", <<RA>>, <<>>),
     RuleOf("r", <<RA>>, <<a1(RA)>>),
     RuleOf("r", <<RA, RB>>, <<a1(RA), b1(RB)>>),
     RuleOf("r", <<RA, Atom("a")>>, <<a1(RA), b1(RA)>>),
     RuleOf("r", <<RA>>, <<a1(RA), b1(RA), c1(RA)>>),
     RuleOf("r", <<RA, RB>>, <<a1(RA), b1(RB), c1(RA), NewCompound("d", <<RB>>)>>)}

\* facts: with a Variable, with only a Variable, and ground
CFacts ==
    {NewCompound("r", <<Atom("a"), RA>>),
     NewCompound("r", <<RA>>),
     NewCompound("r", <<Atom("a")>>)}

CArgTerms == {Variable(1), Variable(2), Atom("a"), Integer(1)}

CArgLists == SeqsUpTo(CArgTerms, 2)

RECURSIVE GoalTerms(_, _, _)
\* the heads of the goal list c, in order (n bounds the walk)
GoalTerms(c, g, n) ==
    IF c = 0 \/ n = 0 THEN <<>>
    ELSE <<g[c].head>> \o GoalTerms(g[c].tail, g, n - 1)

\* the Variables of a list of terms
VarsOfTerms(ts) == UNION {visitVarsTerm(ts[i]) : i \in 1..Len(ts)}

\* the Variables the stored rule holds: those of its parameters and of the
\* goals of its body list
StoredVars(rule, g) == VarsOfTerms(rule.args) \cup visitVars(rule.body, g)

NoCalls(def, rule) ==
    [n |-> 0, def |-> def, rule |-> rule, calls |-> <<>>, fcalls |-> <<>>,
     last |-> "NewRule"]

\* the state once the rule def is built as b.clauses[1]
InitCBuilt(def, b) ==
    /\ val = [i \in 1..NCVars |-> Nil]
    /\ gnodes = b.gnodes
    /\ prog = EmptyProg
    /\ cps = <<>>
    /\ r = NoResults
    /\ pc = "call"
    /\ hist = NoHist
    /\ u = NoCalls(def, b.clauses[1])

InitC ==
    \E def \in CRules \cup CFacts :
        InitCBuilt(def, BuildClauses(<<def>>, 1, <<>>, <<>>))

\* what is recorded of a call that returned before it made a copy
NoCopy(args, res) ==
    [args |-> args, matches |-> res.matches, body |-> res.body, heads |-> <<>>,
     cpArgs |-> <<>>, first |-> Len(val) + 1, fresh |-> {}, unset |-> {},
     vars |-> {}]

\* the return of rule.Call(args): ruleCP is the copy the call made (when the
\* number of arguments is that of the rule), res what it returned
CallRuleReturn(args, ruleCP, res) ==
    /\ val' = res.val
    /\ gnodes' = res.gnodes
    /\ pc' = IF res.div THEN "crashed" ELSE "call"
    /\ u' = [u EXCEPT
               !.n = @ + 1,
               !.last = "Call",
               !.calls = Append(@,
                   IF Len(args) # Len(u.rule.args) THEN NoCopy(args, res) ELSE
                   [args    |-> args,
                    matches |-> res.matches,
                    body    |-> res.body,
                    heads   |-> GoalTerms(res.body, res.gnodes, Len(res.gnodes)),
                    cpArgs  |-> ruleCP.args,
                    first   |-> Len(val) + 1,
                    fresh   |-> (Len(val) + 1)..Len(ruleCP.val),
                    unset   |-> {v \in DOMAIN ruleCP.val : ruleCP.val[v] = Nil},
                    vars    |-> VarsOfTerms(ruleCP.args)
                                  \cup visitVars(res.body, res.gnodes)])]

\* body, matches := rule.Call(args)
CallRule ==
    /\ pc = "call"
    /\ u.rule.k = "rule"
    /\ u.n < MaxRuleCalls
    /\ \E args \in CArgLists :
          CallRuleReturn(args, RuleCp(u.rule, val, gnodes),
                         Call(u.rule, args, val, gnodes))
    /\ UNCHANGED <<prog, cps, r, hist>>

\* the return of fact.Call(args)
CallFactReturn(args, res) ==
    /\ val' = res.val
    /\ gnodes' = res.gnodes
    /\ pc' = IF res.div THEN "crashed" ELSE "call"
    /\ u' = [u EXCEPT
               !.n = @ + 1,
               !.last = "Call",
               !.fcalls = Append(@, [args |-> args, matches |-> res.matches,
                                     body |-> res.body])]

\* body, matches := fact.Call(args) for the stored fact
CallFact ==
    /\ pc = "call"
    /\ u.rule.k = "cmp"
    /\ u.n < MaxRuleCalls
    /\ \E args \in CArgLists : CallFactReturn(args, Call(u.rule, args, val, gnodes))
    /\ UNCHANGED <<prog, cps, r, hist>>

NextC == CallRule \/ CallFact

SpecC == InitC /\ [][NextC]_vars

----------------------------------------------------------------------------
(* The built-in specification: the type tests are called directly, over    *)
(* the caller's terms and bindings                                         *)

NBVars == 2

BArgLists ==
    SeqsUpTo({Variable(1), Variable(2), Atom("a"), Integer(1), Float64(2),
              AnonVariable, NewCompound("f", <<Variable(1)>>)}, 2)

NoBuiltin == [last |-> "none"]

\* the caller's Variable 1 is unset, its Variable 2 unset or bound
InitB ==
    /\ \E t \in {Nil, Atom("a"), Integer(1), Float64(2)} :
          val = [i \in 1..NBVars |-> IF i = 2 THEN t ELSE Nil]
    /\ gnodes = <<>>
    /\ prog = EmptyProg
    /\ cps = <<>>
    /\ r = NoResults
    /\ pc = "builtin"
    /\ hist = NoHist
    /\ u = NoBuiltin

\* the return of a built-in's Call
CallBuiltinReturn(name, args, res) ==
    /\ pc' = IF res.panic THEN "crashed" ELSE "builtin"
    /\ u' = [last |-> "builtin", name |-> name, args |-> args, res |-> res]

\* body, matches := b.Call(args) for a built-in b
CallBuiltin ==
    /\ pc = "builtin"
    /\ \E name \in Builtins, args \in BArgLists :
          CallBuiltinReturn(name, args, BuiltinCall(name, args))
    /\ UNCHANGED <<val, gnodes, prog, cps, r, hist>>

NextB == CallBuiltin

SpecB == InitB /\ [][NextB]_vars

----------------------------------------------------------------------------
(* What a query over ground facts has to answer: one-way matching of a     *)
(* goal against a ground term, independent of Unify                        *)

Twice(t) == IF t.k = "int" THEN 2 * t.i ELSE t.x2

RECURSIVE GroundEq(_, _)
\* equality of ground terms, an Integer being equal to the Float64 of the
\* same value
GroundEq(a, b) ==
    CASE a.k = "cmp" /\ b.k = "cmp" ->
            /\ a.functor = b.functor
            /\ Len(a.args) = Len(b.args)
            /\ \A i \in 1..Len(a.args) : GroundEq(a.args[i], b.args[i])
      [] a.k \in {"int", "float"} /\ b.k \in {"int", "float"} -> Twice(a) = Twice(b)
      [] OTHER -> a = b

EmptySub == [ok |-> TRUE, m |-> <<>>]

RECURSIVE PatMatch(_, _, _)
RECURSIVE PatMatchArgs(_, _, _, _)
\* the substitution s extended so that the pattern pat equals the ground t
PatMatch(pat, t, s) ==
    IF ~s.ok THEN s
    ELSE CASE pat.k = "anon" -> s
           [] pat.k = "var" ->
                IF pat.id \in DOMAIN s.m
                THEN [s EXCEPT !.ok = GroundEq(s.m[pat.id], t)]
                ELSE [s EXCEPT !.m = s.m @@ (pat.id :> t)]
           [] pat.k = "cmp" ->
                IF t.k = "cmp" /\ t.functor = pat.functor /\ Len(t.args) = Len(pat.args)
                THEN PatMatchArgs(pat.args, t.args, 1, s)
                ELSE [s EXCEPT !.ok = FALSE]
           [] OTHER -> [s EXCEPT !.ok = GroundEq(pat, t)]

PatMatchArgs(pats, ts, i, s) ==
    IF i > Len(pats) THEN s
    ELSE PatMatchArgs(pats, ts, i + 1, PatMatch(pats[i], ts[i], s))

\* the caller's Variables under the substitution s
SeenBy(s) == [v \in QueryVars |-> IF v \in DOMAIN s.m THEN s.m[v] ELSE Variable(v)]

RECURSIVE ExpectedFacts(_, _, _)
\* the answers to goal over the facts clauses[i..], in the order added
ExpectedFacts(goal, clauses, i) ==
    IF i > Len(clauses) THEN <<>>
    ELSE LET s == IF Signature(clauses[i]) = Signature(goal)
                  THEN PatMatch(goal, clauses[i], EmptySub)
                  ELSE [ok |-> FALSE, m |-> <<>>]
         IN  (IF s.ok THEN <<SeenBy(s)>> ELSE <<>>)
             \o ExpectedFacts(goal, clauses, i + 1)

RECURSIVE ExpectedInner(_, _, _, _)
\* the answers to the second body goal under the substitution s1
ExpectedInner(pat, facts, j, s1) ==
    IF j > Len(facts) THEN <<>>
    ELSE LET s2 == PatMatch(pat, facts[j], s1)
         IN  (IF s2.ok THEN <<SeenBy(s2)>> ELSE <<>>)
             \o ExpectedInner(pat, facts, j + 1, s1)

RECURSIVE ExpectedOuter(_, _, _, _)
\* the answers to the conjunction pat1, pat2: pat1 is the outer loop
ExpectedOuter(pat1, pat2, facts, i) ==
    IF i > Len(facts) THEN <<>>
    ELSE LET s1 == PatMatch(pat1, facts[i], EmptySub)
         IN  (IF s1.ok THEN ExpectedInner(pat2, facts, 1, s1) ELSE <<>>)
             \o ExpectedOuter(pat1, pat2, facts, i + 1)

\* the Next calls made so far answered as expected says, and false after
AgreesWith(expected) ==
    \A i \in 1..Len(hist.rets) :
        IF i <= Len(expected)
        THEN hist.rets[i].ret /\ hist.rets[i].seen = expected[i]
        ELSE ~hist.rets[i].ret

\* the Results was iterated until Next returned false, without Close
Exhausted ==
    /\ ~hist.closed
    /\ hist.rets # <<>>
    /\ ~hist.rets[Len(hist.rets)].ret

----------------------------------------------------------------------------
(* Claims *)

\* C1: over a program of ground facts, a single-goal query with unbound
\* variables answers true once for each fact of the goal's signature that
\* matches the goal, in the order the facts were added, with the caller's
\* variables bound as that fact dictates, and then answers false.
C1_FactsInOrder ==
    (hist.scn.fam = "facts" /\ ~hist.closed)
        => AgreesWith(ExpectedFacts(hist.scn.goal[1], hist.scn.clauses, 1))

\* likes(bob, X) over the four facts of TestMultiMatch: pizza, beer, false
C1_Witness ==
    /\ hist.scn.fam = "facts"
    /\ Len(hist.scn.clauses) = 4
    /\ hist.scn.goal = <<likes(bob, X)>>
    /\ ~hist.closed
    /\ Len(hist.rets) = 3
    /\ hist.rets[1].ret /\ hist.rets[1].seen[1] = pizza
    /\ hist.rets[2].ret /\ hist.rets[2].seen[1] = Atom("beer")
    /\ ~hist.rets[3].ret

\* C2: for the rule friends(P1, P2) :- likes(P1, T), likes(P2, T) over ground
\* facts, the answers are every combination of a fact matching the first
\* body goal with a fact matching the second, the first goal's fact being
\* the outer loop, none missed or repeated, and then false.
C2_ConjunctionOrder ==
    (hist.scn.fam = "friends" /\ ~hist.closed)
        => AgreesWith(ExpectedOuter(likes(hist.scn.goal[1].args[1], Thing),
                                    likes(hist.scn.goal[1].args[2], Thing),
                                    SubSeq(hist.scn.clauses, 1,
                                           Len(hist.scn.clauses) - 1), 1))

\* friends(X, Y) over likes(eric, pizza), likes(bob, pizza): four answers
C2_Witness ==
    /\ hist.scn.fam = "friends"
    /\ hist.scn.clauses = <<likes(eric, pizza), likes(bob, pizza), friends>>
    /\ hist.scn.goal[1].args = <<X, Y>>
    /\ ~hist.closed
    /\ Len(hist.rets) = 5
    /\ hist.rets[1].seen[1] = eric /\ hist.rets[1].seen[2] = eric
    /\ hist.rets[2].seen[1] = eric /\ hist.rets[2].seen[2] = bob
    /\ hist.rets[3].seen[1] = bob /\ hist.rets[3].seen[2] = eric
    /\ hist.rets[4].ret /\ hist.rets[4].seen[1] = bob /\ hist.rets[4].seen[2] = bob
    /\ ~hist.rets[5].ret


\* C3: with a(1). a(2). b(X) :- a(X), !. the query b(Y) has exactly one
\* solution: the first Next answers true with Y = 1, the second Next false.
C3_CutOneSolution ==
    (/\ hist.scn.fam = "cut"
     /\ hist.scn.clauses = <<a1(Integer(1)), a1(Integer(2)), cutRule>>
     /\ hist.scn.goal = <<b1(Y)>>
     /\ ~hist.closed)
        => /\ Len(hist.rets) >= 1
                => hist.rets[1].ret /\ hist.rets[1].seen[2] = Integer(1)
           /\ Len(hist.rets) >= 2 => ~hist.rets[2].ret

\* C4 as stated: after Next returned false every Variable that existed
\* before the query has the value it had before the query (unset).
C4_RestoredAfterFalse ==
    (~hist.closed /\ hist.rets # <<>> /\ ~hist.rets[Len(hist.rets)].ret)
        => \A v \in 1..NVars : val[v] = Nil

\* C4, amended: a Next call restores Variables only when it tries another
\* clause; a Next call that finds no clause left to try returns false and
\* changes the value of no Variable, so the bindings of the last clause tried
\* stay (after exhausting likes(bob, X) over likes(bob, pizza), X is pizza).
C4_NoClauseNoRestore ==
    [][(/\ Len(hist'.rets) > Len(hist.rets)
        /\ hist'.rets[Len(hist'.rets)].tried = 0)
          => (val' = val /\ ~hist'.rets[Len(hist'.rets)].ret)]_vars

\* likes(bob, X) over the single fact likes(bob, pizza), exhausted
C4_Witness ==
    /\ hist.scn.fam = "facts"
    /\ hist.scn.clauses = <<likes(bob, pizza)>>
    /\ hist.scn.goal = <<likes(bob, X)>>
    /\ Exhausted
    /\ Len(hist.rets) = 2
    /\ hist.rets[1].ret
    /\ hist.rets[2].tried = 0
    /\ val[1] = pizza

\* the head stood for an unbound variable, a number, the anonymous variable
\* or the cut marker
NotCallable(m) == m # Nil /\ m.was.k \in {"var", "int", "float", "anon", "cut"}

\* C5: when the goal about to be proved has a head that is not callable (an
\* unbound variable, a number, the anonymous variable, a leading cut marker),
\* in Query or later during a Next, that Next call (the first one after
\* Query) returns false, the error is the TypeErr expecting "callable" that
\* carries the head, Err returns it, and no Next call reports a solution
\* from then on.
C5_NotCallableTypeErr ==
    /\ NotCallable(hist.qmet)
          => /\ r.err = TypeErr("callable", hist.qmet.head)
             /\ \A i \in 1..Len(hist.rets) : ~hist.rets[i].ret
    /\ \A i \in 1..Len(hist.rets) :
          NotCallable(hist.rets[i].met)
              => /\ ~hist.rets[i].ret
                 /\ hist.rets[i].err = TypeErr("callable", hist.rets[i].met.head)
                 /\ r.err = hist.rets[i].err
                 /\ \A j \in i..Len(hist.rets) : ~hist.rets[j].ret
    /\ (hist.last = "Err" /\ r.err.kind = "TypeErr") => hist.errRet = r.err

\* likes(X, pizza), 1: the number is met after the first goal was proved
C5_Witness ==
    /\ hist.scn.goal = <<likes(X, pizza), Integer(1)>>
    /\ Len(hist.rets) >= 1
    /\ NotCallable(hist.rets[1].met)
    /\ hist.rets[1].met.head = Integer(1)
    /\ hist.rets[1].tried = 1
    /\ hist.last = "Err"
    /\ hist.errRet = TypeErr("callable", Integer(1))

\* C6: once Err is non-nil it keeps the same error, and once a Next call has
\* returned false every later Next call returns false, whatever the order
\* of the Next, Err and Close calls.
C6_StickyAbsorbing ==
    [][/\ r.err # NoErr => r'.err = r.err
       /\ (\E i \in 1..Len(hist.rets) : ~hist.rets[i].ret)
             => \A j \in (Len(hist.rets) + 1)..Len(hist'.rets) : ~hist'.rets[j].ret
      ]_vars

\* a TypeErr during iteration, then Close, then Next again
C6_Witness ==
    /\ hist.closed
    /\ hist.closedAt >= 1
    /\ hist.errAtClose.kind = "TypeErr"
    /\ r.err.kind = "TypeErr"
    /\ Len(hist.rets) > hist.closedAt
    /\ hist.last = "Next"

\* C7 as stated: after Close in any state every Next returns false, Err is
\* "results closed" and the choicepoints are released.
C7_ClosedError ==
    hist.closed
        => /\ r.err = ErrClosed
           /\ r.cp = 0
           /\ \A j \in (hist.closedAt + 1)..Len(hist.rets) : ~hist.rets[j].ret

\* C7, amended: after Close in any state every Next returns false, the
\* choicepoints are released, Err is "results closed" if no error had been
\* recorded before the Close and the error recorded before otherwise, and a
\* second Close changes nothing.
C7_CloseKeepsEarlierError ==
    [][/\ hist'.closed
             => /\ r'.cp = 0
                /\ ~r'.p
                /\ r'.err = IF hist'.errAtClose = NoErr THEN ErrClosed
                            ELSE hist'.errAtClose
                /\ \A j \in (hist'.closedAt + 1)..Len(hist'.rets) :
                       ~hist'.rets[j].ret
       /\ (hist.closed /\ hist'.last = "Close")
             => UNCHANGED <<val, gnodes, prog, cps, r, pc>>
      ]_vars

\* Close after a TypeErr, a Next, and a second Close
C7_Witness ==
    /\ hist.closed
    /\ hist.errAtClose.kind = "TypeErr"
    /\ r.err = hist.errAtClose
    /\ Len(hist.rets) > hist.closedAt
    /\ hist.last = "Close"

\* C8: with c(1). c(2). a(1). b(X) :- a(X), !. the query c(Z), b(Y) answers
\* with Z = 1 and then with Z = 2: the cut in b's body leaves the
\* choicepoint of c(Z), which precedes b(Y), alone.
C8_CutKeepsEarlierGoals ==
    (/\ hist.scn.fam = "cut"
     /\ hist.scn.goal = <<c1(Z), b1(Y)>>
     /\ Exhausted)
        => \E i \in 1..Len(hist.rets) : \E j \in (i + 1)..Len(hist.rets) :
              /\ hist.rets[i].ret /\ hist.rets[i].seen[3] = Integer(1)
              /\ hist.rets[j].ret /\ hist.rets[j].seen[3] = Integer(2)

\* C9: a goal whose head is the Atom a is callable as a(): the query a over
\* the nullary fact a() raises no TypeErr and has one solution.
C9_AtomCallable ==
    (/\ hist.scn.fam = "atom"
     /\ hist.scn.goal = <<Atom("a")>>
     /\ pc = "query"
     /\ ~hist.closed)
        => /\ r.err = NoErr
           /\ Len(hist.rets) >= 1 => hist.rets[1].ret
           /\ Len(hist.rets) >= 2 => ~hist.rets[2].ret

\* the least Variable whose chain of values ends at the unbound Variable id
Rep(id, h) ==
    CHOOSE w \in DOMAIN h :
        /\ Resolve(Variable(w), h, MaxDepth) = Variable(id)
        /\ \A x \in DOMAIN h :
              Resolve(Variable(x), h, MaxDepth) = Variable(id) => w <= x

RECURSIVE Canon(_, _)
\* a resolved term with each unbound Variable replaced by the least
\* Variable bound to it
Canon(t, h) ==
    CASE t.k = "var" -> Variable(Rep(t.id, h))
      [] t.k = "cmp" ->
            NewCompound(t.functor, [i \in 1..Len(t.args) |-> Canon(t.args[i], h)])
      [] OTHER -> t

\* the same bindings up to which of two unbound Variables points at the other
Equivalent(h1, h2) ==
    \A v \in DOMAIN h1 :
        Canon(Resolve(Variable(v), h1, MaxDepth), h1)
            = Canon(Resolve(Variable(v), h2, MaxDepth), h2)

\* C10: from the same bindings, a.Unify(b) and b.Unify(a) return the same
\* boolean and, when they succeed, leave equivalent bindings.
C10_UnifySymmetric ==
    (u.n > 0 /\ ~u.ab.div /\ ~u.ba.div)
        => /\ u.ab.ok = u.ba.ok
           /\ u.ab.ok => Equivalent(u.ab.val, u.ba.val)

\* C11: when a.Unify(b) returned true, the same call made again at once
\* returns true and changes the value of no Variable, two distinct unbound
\* Variables included.
C11_UnifyIdempotent ==
    [][(/\ u.n > 0
        /\ u'.n = u.n + 1
        /\ u.ab.ok
        /\ u'.a = u.a
        /\ u'.b = u.b)
          => (u'.ab.ok /\ val' = val)]_vars

RECURSIVE ChainEnds(_, _, _)
\* the chain of value links from t reaches a non-Variable or an unset value
\* within n links
ChainEnds(t, h, n) ==
    IF t.k # "var" THEN TRUE
    ELSE IF n = 0 THEN FALSE
    ELSE ChainEnds(h[t.id], h, n - 1)

\* C12: after any sequence of Unify calls on Variables and Atoms the chain
\* of value links from every Variable is acyclic: it ends within as many
\* links as there are Variables.
C12_ChainsAcyclic ==
    (u.n > 0 /\ u.plain)
        => \A v \in DOMAIN val : ChainEnds(Variable(v), val, Len(val))

\* C13: Unify returns true whenever the receiver or the argument is the
\* anonymous variable or the cut marker.
C13_AnonCutUnify ==
    (/\ u.n > 0
     /\ ~u.ab.div
     /\ (u.a.k \in {"anon", "cut"} \/ u.b.k \in {"anon", "cut"}))
        => u.ab.ok

RECURSIVE Pairwise(_, _, _, _)
RECURSIVE PairwiseFrom(_, _, _, _)
\* xs[i].Unify(ys[i]), then the next pair from the bindings it left, up to
\* the first pair that fails
Pairwise(xs, ys, i, h) ==
    IF i > Len(xs) THEN UResult(TRUE, h)
    ELSE PairwiseFrom(xs, ys, i, Unify(xs[i], ys[i], h, MaxDepth))

PairwiseFrom(xs, ys, i, res) ==
    IF res.div \/ ~res.ok THEN res ELSE Pairwise(xs, ys, i + 1, res.val)

\* a.Unify(b) of two compounds agrees with the outcome p of the pairs
C14Agrees(p) ==
    IF u.a.functor # u.b.functor \/ Len(u.a.args) # Len(u.b.args)
    THEN ~u.ab.ok /\ u.ab.val = u.before
    ELSE p.div \/ (u.ab.ok = p.ok /\ u.ab.val = p.val)

\* C14: two compounds unify iff their functors and arities are equal and
\* their arguments unify pairwise from left to right; when a later pair
\* fails, Unify returns false and the bindings made for the earlier pairs
\* stay.
C14_CompoundPairwise ==
    (u.n > 0 /\ u.a.k = "cmp" /\ u.b.k = "cmp" /\ ~u.ab.div)
        => C14Agrees(Pairwise(u.a.args, u.b.args, 1, u.before))

\* g(X, a).Unify(g(1, b)) with X unbound: false, and X is left bound to 1
C14_Witness ==
    /\ u.n > 0
    /\ u.a = NewCompound("g", <<Variable(1), Atom("a")>>)
    /\ u.b = NewCompound("g", <<Integer(1), Atom("b")>>)
    /\ u.before[1] = Nil
    /\ ~u.ab.ok
    /\ val[1] = Integer(1)

\* the receiver V of the last call, which stood for the non-variable t
\* before the call, still does after V.Unify(w) and after w.Unify(V), and
\* the two calls returned the same boolean
C17Holds(t) ==
    /\ ~u.ab.div => Value(u.a, u.ab.val) = t
    /\ ~u.ba.div => Value(u.a, u.ba.val) = t
    /\ (~u.ab.div /\ ~u.ba.div) => u.ab.ok = u.ba.ok

C17Bound(t) == t.k \in {"atom", "int", "float", "cmp"} => C17Holds(t)

\* C17: once a Variable V dereferences to a non-variable term T, a Unify
\* call with V as receiver or argument leaves V dereferencing to T, and
\* V.Unify(w) and w.Unify(V) succeed in the same cases, those where T
\* unifies with w.
C17_BindingStable ==
    (u.n > 0 /\ u.a.k = "var") => C17Bound(Value(u.a, u.before))

RECURSIVE Rename(_, _)
\* the term t with each Variable v replaced by Variable(rho[v])
Rename(t, rho) ==
    CASE t.k = "var" -> Variable(rho[t.id])
      [] t.k = "cmp" ->
            NewCompound(t.functor, [i \in 1..Len(t.args) |-> Rename(t.args[i], rho)])
      [] OTHER -> t

\* the call c returned the rule def renamed by rho: its parameters and one
\* goal for each goal of the body, in order
CopyBy(c, def, rho) ==
    /\ \A v \in RuleVarIds : \A w \in RuleVarIds : (v # w) => rho[v] # rho[w]
    /\ c.cpArgs = [i \in 1..Len(def.args) |-> Rename(def.args[i], rho)]
    /\ c.heads = [i \in 1..Len(def.body) |-> Rename(def.body[i], rho)]

\* C15: the body returned by a successful Rule.Call has one goal for every
\* goal of the rule's body, in order, whatever the length of the body, and
\* each rule Variable is replaced throughout the parameters and the body by
\* one fresh Variable, left unset by the copy.
C15_CompleteCopy ==
    \A i \in 1..Len(u.calls) :
        u.calls[i].matches
            => \E rho \in [RuleVarIds -> u.calls[i].first..(u.calls[i].first + 1)] :
                  /\ CopyBy(u.calls[i], u.def, rho)
                  /\ u.calls[i].vars \subseteq u.calls[i].fresh
                  /\ u.calls[i].vars \subseteq u.calls[i].unset

\* C16: the Variables of the renamed parameters and of the body of one
\* Rule.Call are Variables of no other call of the rule and are not among
\* the Variables the stored rule holds.
C16_CallsShareNoVariable ==
    /\ \A i \in 1..Len(u.calls) : \A j \in 1..Len(u.calls) :
          (i # j) => u.calls[i].vars \cap u.calls[j].vars = {}
    /\ \A i \in 1..Len(u.calls) :
          u.calls[i].vars \cap StoredVars(u.rule, gnodes) = {}

\* what the built-in name tests
Tested(name, t) ==
    CASE name = "var"     -> t.k = "var"
      [] name = "nonvar"  -> t.k # "var"
      [] name = "integer" -> t.k = "int"
      [] name = "float"   -> t.k = "float"

\* C20: a type-test built-in called with one argument returns, without
\* faulting, a nil body and matches = whether the argument is of the tested
\* kind; called with another number of arguments it returns matches =
\* false; it changes no binding.
C20_TypeTests ==
    [][(u'.last = "builtin" /\ u' # u)
          => /\ ~u'.res.panic
             /\ u'.res.body = 0
             /\ u'.res.matches =
                    (/\ Len(u'.args) = 1
                     /\ Tested(u'.name, u'.args[1]))
             /\ val' = val]_vars

\* the index of the last Next call that returned true (0 when none did)
LastTrue ==
    IF \E i \in 1..Len(hist.rets) : hist.rets[i].ret
    THEN CHOOSE i \in 1..Len(hist.rets) :
            /\ hist.rets[i].ret
            /\ \A j \in (i + 1)..Len(hist.rets) : ~hist.rets[j].ret
    ELSE 0

\* C18: when a query with solutions was iterated until Next returned false
\* and no error occurred, each query Variable the last solution had bound
\* still has, by Value, the term the last solution gave it.
C18_KeepsLastSolution ==
    (Exhausted /\ r.err = NoErr /\ pc = "query" /\ LastTrue > 0)
        => \A v \in QueryVars :
              hist.rets[LastTrue].value[v] # Nil
                  => Value(Variable(v), val) = hist.rets[LastTrue].value[v]

RECURSIVE ProvedBy(_, _, _)
\* the facts among clauses[i..] that prove the compound c, in order
ProvedBy(c, clauses, i) ==
    IF i > Len(clauses) THEN <<>>
    ELSE (IF /\ clauses[i].k = "cmp"
             /\ Signature(clauses[i]) = Signature(c)
             /\ PatMatch(c, clauses[i], EmptySub).ok
          THEN <<clauses[i]>> ELSE <<>>)
         \o ProvedBy(c, clauses, i + 1)

\* the Next calls made so far answered once for each fact of expected, X
\* standing for that fact, and false after
C19Agrees(expected) ==
    /\ r.err = NoErr
    /\ \A i \in 1..Len(hist.rets) :
          IF i <= Len(expected)
          THEN hist.rets[i].ret /\ hist.rets[i].seen[1] = expected[i]
          ELSE ~hist.rets[i].ret

\* C19: a goal whose head is the Variable X is proved as the compound X
\* stands for when the goal is met, directly or through other Variables: as
\* many solutions as facts prove that compound, with no error; when X is
\* unbound or stands for a number, the result is the TypeErr.
C19_BoundVariableCalled ==
    (/\ hist.scn.fam = "callvar"
     /\ ~hist.closed
     /\ Len(hist.rets) >= 1)
        => /\ hist.rets[1].met # Nil
           /\ hist.rets[1].met.head = X
           /\ IF hist.rets[1].met.was.k = "cmp"
              THEN C19Agrees(ProvedBy(hist.rets[1].met.was, hist.scn.clauses, 1))
              ELSE /\ r.err = TypeErr("callable", X)
                   /\ \A i \in 1..Len(hist.rets) : ~hist.rets[i].ret

\* C21: every clause attempt at a choicepoint starts from the bindings that
\* held when the choicepoint was made, Variables reached only through a
\* binding included: for t(f(A)). q(f(1)). q(f(2)). the query t(X), q(X)
\* answers X = f(1), then X = f(2), then false.
C21_AttemptsStartFromSnapshot ==
    (hist.scn.fam = "snapshot" /\ ~hist.closed)
        => \A i \in 1..Len(hist.rets) :
              CASE i = 1 -> hist.rets[i].ret /\ hist.rets[i].seen[1] = f1(Integer(1))
                [] i = 2 -> hist.rets[i].ret /\ hist.rets[i].seen[1] = f1(Integer(2))
                [] OTHER -> ~hist.rets[i].ret

\* C24: over the programs explored, none of which has a recursive rule,
\* every Next call returns, Value returns on each query Variable after each
\* Next, and the Next calls return false after finitely many true results.
C24_NextTerminates ==
    /\ pc # "crashed"
    /\ \A v \in QueryVars : Value(Variable(v), val) # Diverges
    /\ Len(hist.rets) >= MaxCalls => \E i \in 1..Len(hist.rets) : ~hist.rets[i].ret

\* the node of the stored rule's i-th body goal as NewGoal made it
BodyNode(rule, def, i) ==
    [head |-> def.body[i],
     tail |-> IF i = Len(def.body) THEN 0 ELSE rule.body + i]

\* C22: after any number of Rule.Call calls the stored rule's parameters
\* and body list are as NewRule got them: the same nodes, heads and tail
\* links, for a body of any length.
C22_RuleUnchanged ==
    (u.rule.k = "rule")
        => /\ u.rule.functor = u.def.functor
           /\ u.rule.args = u.def.args
           /\ \A i \in 1..Len(u.def.body) :
                 gnodes[u.rule.body + i - 1] = BodyNode(u.rule, u.def, i)
           /\ GoalTerms(u.rule.body, gnodes, Len(gnodes)) = u.def.body

\* the list of terms holds no Variable
GroundArgs(args) == VarsOfTerms(args) = {}

\* C23: Compound.Call binds no Variable of the stored fact, so at every
\* call the fact matches the ground argument lists that are instances of
\* it, whatever the calls made before.
C23_FactUnchanged ==
    (u.rule.k = "cmp")
        => /\ \A v \in visitVarsTerm(u.rule) : val[v] = Nil
           /\ \A i \in 1..Len(u.fcalls) :
                 (/\ GroundArgs(u.fcalls[i].args)
                  /\ Len(u.fcalls[i].args) = Len(u.rule.args))
                     => u.fcalls[i].matches
                          = PatMatchArgs(u.rule.args, u.fcalls[i].args, 1, EmptySub).ok

====
